---- MODULE Spec2Model ----
(***************************************************************************)
(* A model of esp-mcp: the tool operations of main.py (build, set-target,  *)
(* create-project, flash with its retry loop, run-install, run-tests) on   *)
(* one asyncio event loop, and the two process runners of esp_utils.py.    *)
(*                                                                         *)
(* Spec        the tool operations of main.py as concurrent invocations on *)
(*             one event loop; a runner call is a suspension point that    *)
(*             ends with one of the results a runner can return.           *)
(* SpecRunner  one call of run_command_async_stream or run_command_async   *)
(*             with the child process, its two pipes and the log file.     *)
(* FairSpecRunner  SpecRunner with the loop and the child scheduled fairly.*)
(* SpecPorts   one call of list_serial_ports over the devices, the filters *)
(*             and the failures its host can present.                      *)
(* SpecShared  the _read_stream tasks of two streaming calls that were     *)
(*             given the same log_path.                                    *)
(***************************************************************************)
EXTENDS Integers, Sequences, FiniteSets, TLC

VARIABLES
    idfEnv,      \* TRUE iff IDF_PATH is in os.environ
    envRetries,  \* int(os.environ.get("ESP_MCP_FLASH_RETRIES", "10"))
    cwd,         \* the process-wide working directory (os.chdir / os.getcwd)
    blocked,     \* the invocation whose time.sleep holds the loop's thread, or NoTask
    inv,         \* inv[t]: the locals and the observable effects of invocation t
    mode,        \* the runner under call: "stream" or "plain"
    rpc,         \* where the runner's coroutine stands
    result,      \* the tuple the runner returned
    child,       \* the child process: its state, exit code, whether it was reaped
    pending,     \* the write the command is about to make, or NoWrite
    wrote,       \* wrote[s]: the lines the command has written to stream s
    pipe,        \* pipe[s]: the lines written to stream s and not yet read
    drain,       \* drain[s]: the _read_stream task of stream s
    log,         \* the lines appended to the file at log_path
    lin,         \* list_serial_ports: its arguments and what the host answers
    lpc,         \* list_serial_ports: where its coroutine stands
    lout,        \* list_serial_ports: the tuple it returned
    sharedLog    \* the file two streaming calls append to, piece by piece

toolVars == <<idfEnv, envRetries, cwd, blocked, inv>>
runnerVars == <<mode, rpc, result, child, pending, wrote, pipe, drain, log>>
portVars == <<lin, lpc, lout>>
auxVars == <<portVars, sharedLog>>
vars == <<toolVars, runnerVars, auxVars>>

----------------------------------------------------------------------------
(* Bounds *)

\* the largest ESP_MCP_FLASH_RETRIES value explored
MaxRetries == 3

\* the most lines a command writes to one stream
MaxLines == 2

\* the lines one stream buffers between the command and its reader
PipeCap == 1

\* the most devices the host enumerates
MaxPorts == 3

\* the most reads one stream of a call sharing its log yields
MaxAppends == 1

----------------------------------------------------------------------------
(* Values *)

Tasks == {"t1", "t2"}
NoTask == "none"

NoneVal == "None"
\* idf_path arguments: None, empty, blank, a path
IdfArgs == {NoneVal, "", " ", "/idf"}
Projects == {"/pA", "/pB"}
StartDir == "/start"
EnvIdfDir == "/env-idf"

Ops == {"build", "set_target", "create", "flash", "install", "pytest"}

ErrPrefix == "Error executing command: "
IdfPathMissing == "IDF_PATH must be provided either as parameter or environment variable"
InstallMissing == "install.sh not found"

\* what a runner call can hand back: the child's exit code with the texts of
\* its two streams, or the converted internal error (esp_utils.py:67-68)
ErrorResult == [rc |-> 1, out |-> "", err |-> ErrPrefix]
RunnerResults ==
    {[rc |-> 0, out |-> o, err |-> ""] : o \in {"x", "y"}}
      \cup {[rc |-> 1, out |-> o, err |-> "e"] : o \in {"x", "y"}}
      \cup {ErrorResult}

NoRet == [kind |-> "none", out |-> "", err |-> "", timing |-> FALSE]
Returned(o, e, timed) == [kind |-> "returned", out |-> o, err |-> e, timing |-> timed]
Raised(msg) == [kind |-> "raised", out |-> "", err |-> msg, timing |-> FALSE]

----------------------------------------------------------------------------
(* esp_utils.py: toolchain path resolution *)

\* Python truthiness of an optional string
Truthy(s) == s \notin {NoneVal, ""}

\* str.strip() on the argument values
Strip(s) == IF s = " " THEN "" ELSE s

\* idf_path if (idf_path and idf_path.strip()) else None
ProcessedIdf(p) == IF Truthy(p) /\ Truthy(Strip(p)) THEN p ELSE NoneVal

\* the resolution falling back to a default directory where the code raises
get_esp_idf_dir_default(p) ==
    IF Truthy(p) THEN [ok |-> TRUE, val |-> p] ELSE [ok |-> TRUE, val |-> EnvIdfDir]

\* get_esp_idf_dir: the directory, or the ValueError it raises
get_esp_idf_dir(p) ==
    IF Truthy(p) THEN [ok |-> TRUE, val |-> p]
    ELSE IF idfEnv THEN [ok |-> TRUE, val |-> EnvIdfDir]
    ELSE [ok |-> FALSE, val |-> IdfPathMissing]

\* get_export_script: os.path.join(get_esp_idf_dir(p), "export.sh"); a raise passes through
get_export_script(p) == get_esp_idf_dir(p)

\* the toolchain path configuration is missing for argument p
ConfigMissing(p) == ~Truthy(ProcessedIdf(p)) /\ ~idfEnv

----------------------------------------------------------------------------
(* main.py: the event loop and the invocations *)

\* the loop's thread is free to run a callback of invocation t: no other
\* invocation holds it in a blocking call
LoopFree(t) == blocked \in {NoTask, t}

InitInv ==
    [pc |-> "idle", op |-> "none", project |-> "none", idf |-> NoneVal,
     origdir |-> "none", attempt |-> 0, retries |-> 0,
     rc |-> 1, out |-> "", err |-> "",
     calls |-> 0, delays |-> 0, firstOk |-> 0, last |-> ErrorResult,
     ret |-> NoRet, warnings |-> <<>>, files |-> {}, logged |-> <<>>,
     ranIn |-> {}]

ToolInit ==
    /\ idfEnv \in BOOLEAN
    /\ envRetries \in -1..MaxRetries
    /\ cwd = StartDir
    /\ blocked = NoTask
    /\ inv = [t \in Tasks |-> InitInv]

\* returncode, stdout, stderr = await run_command_async_stream(cmd, live): the
\* call; its child is spawned in dir, the working directory of the process at
\* that moment
CallRunner(r, live, dir) ==
    [r EXCEPT !.pc = "running", !.calls = @ + 1, !.files = @ \cup {live},
              !.ranIn = @ \cup {dir}]

\* ... and the assignment of its result r to the locals
TakeResult(s, r) ==
    [s EXCEPT !.rc = r.rc, !.out = r.out, !.err = r.err, !.last = r,
              !.firstOk = IF r.rc = 0 /\ @ = 0 THEN s.calls ELSE @]

\* _write_log(name, ...) and _write_log(_timestamped(stem), ...)
ResultLogs(stem) == {stem \o ".log", stem \o "-TIMESTAMP.log"}

\* the operation ends: its return value, or the exception that leaves it
Finish(s, r) == [s EXCEPT !.pc = "done", !.ret = r]

\* the first lines of every operation: the arguments are bound
Enter(t, o, p, i) ==
    [inv[t] EXCEPT !.op = o, !.project = p, !.idf = i]

\* build_esp_project up to its await (main.py:48-65)
build_esp_project(t) ==
    /\ inv[t].pc = "idle" /\ LoopFree(t)
    /\ \E p \in Projects, i \in IdfArgs :
         LET s == Enter(t, "build", p, i)
             es == get_export_script(ProcessedIdf(i))
         IN /\ cwd' = p
            /\ inv' = [inv EXCEPT ![t] =
                   IF es.ok THEN CallRunner(s, "mcp-process-live.log", p)
                   ELSE Finish(s, Raised(es.val))]
    /\ UNCHANGED <<idfEnv, envRetries, blocked, runnerVars, auxVars>>

\* build_esp_project from the runner's result to its return (main.py:62-79)
build_resume(t) ==
    /\ inv[t].pc = "running" /\ inv[t].op = "build" /\ LoopFree(t)
    /\ \E r \in RunnerResults :
         LET s == TakeResult(inv[t], r)
         IN inv' = [inv EXCEPT ![t] =
                Finish([s EXCEPT !.files = @ \cup ResultLogs("mcp-process"),
                                 !.logged = <<s.out, s.err>>,
                                 !.warnings = Append(@, [kind |-> "result", rc |-> s.rc])],
                       Returned(s.out, s.err, TRUE))]
    /\ UNCHANGED <<idfEnv, envRetries, cwd, blocked, runnerVars, auxVars>>

\* setup_project_esp_target up to its await (main.py:97-107)
setup_project_esp_target(t) ==
    /\ inv[t].pc = "idle" /\ LoopFree(t)
    /\ \E p \in Projects, i \in IdfArgs :
         LET s == Enter(t, "set_target", p, i)
             es == get_export_script(ProcessedIdf(i))
         IN /\ cwd' = p
            /\ inv' = [inv EXCEPT ![t] =
                   IF es.ok THEN CallRunner(s, "mcp-set-target-live.log", p)
                   ELSE Finish(s, Raised(es.val))]
    /\ UNCHANGED <<idfEnv, envRetries, blocked, runnerVars, auxVars>>

\* setup_project_esp_target from the runner's result to its return (main.py:104-111)
setup_resume(t) ==
    /\ inv[t].pc = "running" /\ inv[t].op = "set_target" /\ LoopFree(t)
    /\ \E r \in RunnerResults :
         LET s == TakeResult(inv[t], r)
         IN inv' = [inv EXCEPT ![t] =
                Finish([s EXCEPT !.files = @ \cup ResultLogs("mcp-set-target"),
                                 !.logged = <<s.out, s.err>>,
                                 !.warnings = Append(@, [kind |-> "result", rc |-> s.rc])],
                       Returned(s.out, s.err, FALSE))]
    /\ UNCHANGED <<idfEnv, envRetries, cwd, blocked, runnerVars, auxVars>>

\* create_esp_project up to its await (main.py:127-134); it takes no idf_path
create_esp_project(t) ==
    /\ inv[t].pc = "idle" /\ LoopFree(t)
    /\ \E p \in Projects :
         LET s == Enter(t, "create", p, NoneVal)
             es == get_export_script(NoneVal)
         IN /\ cwd' = p
            /\ inv' = [inv EXCEPT ![t] =
                   IF es.ok THEN CallRunner(s, "mcp-project-root-path-live.log", p)
                   ELSE Finish(s, Raised(es.val))]
    /\ UNCHANGED <<idfEnv, envRetries, blocked, runnerVars, auxVars>>

\* create_esp_project from the runner's result to its return (main.py:131-138)
create_resume(t) ==
    /\ inv[t].pc = "running" /\ inv[t].op = "create" /\ LoopFree(t)
    /\ \E r \in RunnerResults :
         LET s == TakeResult(inv[t], r)
         IN inv' = [inv EXCEPT ![t] =
                Finish([s EXCEPT !.files = @ \cup ResultLogs("mcp-project-root-path"),
                                 !.logged = <<s.out, s.err>>,
                                 !.warnings = Append(@, [kind |-> "result", rc |-> s.rc])],
                       Returned(s.out, s.err, FALSE))]
    /\ UNCHANGED <<idfEnv, envRetries, cwd, blocked, runnerVars, auxVars>>

\* the loop without its break: no result ends it
AttemptSucceededNoBreak(r) == FALSE

\* line 184: if returncode == 0: break
AttemptSucceeded(r) == r.rc = 0

\* the loop over range(1, retries): one attempt short
HasNextAttemptShort(k, n) == k + 1 < n

\* line 182: for attempt in range(1, retries + 1) has a further value after k
HasNextAttempt(k, n) == k < n

\* a loop that tests its bound only after the first attempt
HasFirstAttemptAlways(n) == TRUE

\* line 182 on entry: the range is not empty
HasFirstAttempt(n) == 1 <= n

\* flash_esp_project after its loop (main.py:189-195)
FlashFinish(s) ==
    Finish([s EXCEPT !.files = @ \cup ResultLogs("mcp-flash"),
                     !.logged = [rc |-> s.rc, out |-> s.out, err |-> s.err],
                     !.warnings = Append(@, [kind |-> "result", rc |-> s.rc])],
           Returned(s.out, s.err, FALSE))

\* flash_esp_project up to the first await of its loop (main.py:153-183)
flash_esp_project(t) ==
    /\ inv[t].pc = "idle" /\ LoopFree(t)
    /\ \E p \in Projects :
         LET s == [Enter(t, "flash", p, NoneVal) EXCEPT
                      !.retries = envRetries,
                      !.warnings = Append(@, [kind |-> "transport"])]
             es == get_export_script(NoneVal)
         IN /\ cwd' = p
            /\ inv' = [inv EXCEPT ![t] =
                   IF ~es.ok THEN Finish(s, Raised(es.val))
                   ELSE IF HasFirstAttempt(s.retries)
                        THEN CallRunner([s EXCEPT !.attempt = 1], "mcp-flash-live.log", p)
                        ELSE FlashFinish(s)]
    /\ UNCHANGED <<idfEnv, envRetries, blocked, runnerVars, auxVars>>

\* one attempt's result (main.py:183-187): break on success, otherwise the
\* warning and the start of time.sleep(delay), which does not yield: it holds
\* the loop's thread until it returns
flash_attempt_done(t) ==
    /\ inv[t].pc = "running" /\ inv[t].op = "flash" /\ LoopFree(t)
    /\ \E r \in RunnerResults :
         LET s == TakeResult(inv[t], r)
         IN IF AttemptSucceeded(r)
            THEN /\ inv' = [inv EXCEPT ![t] = FlashFinish(s)]
                 /\ UNCHANGED blocked
            ELSE /\ inv' = [inv EXCEPT ![t] =
                        [s EXCEPT !.pc = "sleeping", !.delays = @ + 1,
                                  !.warnings = Append(@, [kind |-> "retry",
                                      attempt |-> s.attempt, total |-> s.retries])]]
                 /\ blocked' = t
    /\ UNCHANGED <<idfEnv, envRetries, cwd, runnerVars, auxVars>>

\* time.sleep(delay) returns (main.py:187): the next attempt, or the end of the loop
flash_sleep_done(t) ==
    /\ inv[t].pc = "sleeping" /\ inv[t].op = "flash" /\ LoopFree(t)
    /\ blocked' = NoTask
    /\ inv' = [inv EXCEPT ![t] =
           IF HasNextAttempt(inv[t].attempt, inv[t].retries)
           THEN CallRunner([inv[t] EXCEPT !.attempt = @ + 1], "mcp-flash-live.log", cwd)
           ELSE FlashFinish(inv[t])]
    /\ UNCHANGED <<idfEnv, envRetries, cwd, runnerVars, auxVars>>

\* run_esp_idf_install up to its await (main.py:237-264)
run_esp_idf_install(t) ==
    /\ inv[t].pc = "idle" /\ LoopFree(t)
    /\ \E i \in IdfArgs, scriptExists \in BOOLEAN :
         LET s == [Enter(t, "install", "none", i) EXCEPT !.origdir = cwd]
             dir == get_esp_idf_dir(ProcessedIdf(i))
         IN IF ~dir.ok
            THEN /\ inv' = [inv EXCEPT ![t] = Finish(s, Returned("", dir.val, FALSE))]
                 /\ UNCHANGED cwd
            ELSE IF ~scriptExists
            THEN /\ inv' = [inv EXCEPT ![t] = Finish(s, Returned("", InstallMissing, FALSE))]
                 /\ UNCHANGED cwd
            ELSE /\ inv' = [inv EXCEPT ![t] = CallRunner(s, "mcp-install-live.log", dir.val)]
                 /\ cwd' = dir.val
    /\ UNCHANGED <<idfEnv, envRetries, blocked, runnerVars, auxVars>>

\* run_esp_idf_install from the runner's result to its return (main.py:261-283)
install_resume(t) ==
    /\ inv[t].pc = "running" /\ inv[t].op = "install" /\ LoopFree(t)
    /\ \E r \in RunnerResults :
         LET s == TakeResult(inv[t], r)
         IN inv' = [inv EXCEPT ![t] =
                Finish([s EXCEPT !.files = @ \cup ResultLogs("mcp-install"),
                                 !.logged = [rc |-> s.rc, out |-> s.out, err |-> s.err],
                                 !.warnings = Append(@, [kind |-> "result", rc |-> s.rc])],
                       Returned(s.out, s.err, TRUE))]
    /\ cwd' = inv[t].origdir
    /\ UNCHANGED <<idfEnv, envRetries, blocked, runnerVars, auxVars>>

\* run_pytest up to its await (main.py:309-324); the finally restores the
\* directory when get_export_script raises
run_pytest(t) ==
    /\ inv[t].pc = "idle" /\ LoopFree(t)
    /\ \E p \in Projects, i \in IdfArgs :
         LET s == [Enter(t, "pytest", p, i) EXCEPT !.origdir = cwd]
             es == get_export_script(ProcessedIdf(i))
         IN IF es.ok
            THEN /\ inv' = [inv EXCEPT ![t] = CallRunner(s, "mcp-pytest-live.log", p)]
                 /\ cwd' = p
            ELSE /\ inv' = [inv EXCEPT ![t] = Finish(s, Raised(es.val))]
                 /\ cwd' = s.origdir
    /\ UNCHANGED <<idfEnv, envRetries, blocked, runnerVars, auxVars>>

\* run_pytest from the runner's result to its return (main.py:324-333)
pytest_resume(t) ==
    /\ inv[t].pc = "running" /\ inv[t].op = "pytest" /\ LoopFree(t)
    /\ \E r \in RunnerResults :
         LET s == TakeResult(inv[t], r)
         IN inv' = [inv EXCEPT ![t] =
                Finish([s EXCEPT !.files = @ \cup {"mcp-pytest.log"},
                                 !.logged = [rc |-> s.rc, out |-> s.out, err |-> s.err],
                                 !.warnings = Append(@, [kind |-> "result", rc |-> s.rc])],
                       Returned(s.out, s.err, FALSE))]
    /\ cwd' = inv[t].origdir
    /\ UNCHANGED <<idfEnv, envRetries, blocked, runnerVars, auxVars>>

----------------------------------------------------------------------------
(* esp_utils.py: the runners *)

Streams == {"stdout", "stderr"}
Prefix(s) == IF s = "stdout" THEN "[stdout] " ELSE "[stderr] "

\* the lines a command writes, each ended by its newline: a line of text, a
\* line holding bytes that are not UTF-8, a line longer than the limit of the
\* stream reader
LineKinds == {"ok", "bad", "long"}

NoWrite == [s |-> "none", line |-> "none"]
NoResult == [rc |-> -1, out |-> <<>>, err |-> <<>>]
NoChild == [state |-> "none", rc |-> 0, reaped |-> FALSE, launches |-> 0]
NoDrain == [pc |-> "none", chunks |-> <<>>]

\* no runner is under call
RunnerIdle ==
    /\ mode = "none" /\ rpc = "none" /\ result = NoResult /\ child = NoChild
    /\ pending = NoWrite /\ wrote = [s \in Streams |-> <<>>]
    /\ pipe = [s \in Streams |-> <<>>] /\ drain = [s \in Streams |-> NoDrain]
    /\ log = <<>>

\* line.decode(errors="replace"): the text of one line, undecodable bytes replaced
DecodeReplace(l) == IF l = "bad" THEN <<"replaced">> ELSE <<l>>

\* "".join(chunks)
RECURSIVE Join(_)
Join(chunks) == IF chunks = <<>> THEN <<>> ELSE Head(chunks) \o Join(Tail(chunks))

\* bytes.decode(): UnicodeDecodeError on bytes that are not UTF-8, otherwise
\* the text of all the lines captured
CanDecode(ls) == \A i \in 1..Len(ls) : ls[i] # "bad"
Decode(ls) == Join([i \in 1..Len(ls) |-> DecodeReplace(ls[i])])

\* readline() raises ValueError on a line over the reader's limit
ReadRaises(l) == l = "long"

\* the handler handing back the stdout accumulated so far
OnExceptionKeepsOutput(outSoFar) == [rc |-> 1, out |-> outSoFar, err |-> <<ErrPrefix>>]

\* except Exception as e: return 1, "", f"Error executing command: {str(e)}"
OnException(outSoFar) == [rc |-> 1, out |-> <<>>, err |-> <<ErrPrefix>>]

\* the two texts handed back in each other's place
StreamResultSwapped(rc, outChunks, errChunks) ==
    [rc |-> rc, out |-> Join(errChunks), err |-> Join(outChunks)]

\* return returncode, "".join(stdout_chunks), "".join(stderr_chunks)
StreamResult(rc, outChunks, errChunks) ==
    [rc |-> rc, out |-> Join(outChunks), err |-> Join(errChunks)]

\* the oldest line of the stream in place of the one just read
TextReadFirst(chunks) == chunks[1]

\* text: the line just decoded and appended to the chunks (lines 54-55),
\* which is what line 57 writes
TextRead(chunks) == chunks[Len(chunks)]

\* a drain in the synchronous stretch between its readline and its write:
\* no other coroutine of the loop runs until it ends
InSync == \E s \in Streams : drain[s].pc = "write"

\* the drains awaited one after the other: stderr is read once stdout is done
DrainRunsInTurn(s) ==
    drain[s].pc = "read" /\ (s = "stdout" \/ drain["stdout"].pc = "done")

\* the _read_stream task of s runs beside the other one (asyncio.gather)
DrainRuns(s) == drain[s].pc = "read"

RunnerInit ==
    /\ mode \in {"stream", "plain"}
    /\ rpc = "start" /\ result = NoResult /\ child = NoChild
    /\ pending = NoWrite /\ wrote = [s \in Streams |-> <<>>]
    /\ pipe = [s \in Streams |-> <<>>] /\ drain = [s \in Streams |-> NoDrain]
    /\ log = <<>>

\* the command picks its next write: a line on one of its streams
ChildNext ==
    /\ child.state = "running" /\ pending = NoWrite
    /\ \E s \in Streams, l \in LineKinds :
         /\ Len(wrote[s]) < MaxLines
         /\ pending' = [s |-> s, line |-> l]
    /\ UNCHANGED <<mode, rpc, result, child, wrote, pipe, drain, log, toolVars, auxVars>>

\* the write goes through when the pipe has room; a full pipe blocks the command
ChildWrite ==
    /\ child.state = "running" /\ pending # NoWrite
    /\ Len(pipe[pending.s]) < PipeCap
    /\ pipe' = [pipe EXCEPT ![pending.s] = Append(@, pending.line)]
    /\ wrote' = [wrote EXCEPT ![pending.s] = Append(@, pending.line)]
    /\ pending' = NoWrite
    /\ UNCHANGED <<mode, rpc, result, child, drain, log, toolVars, auxVars>>

\* the command exits, which closes the write ends of its pipes
ChildExit ==
    /\ child.state = "running" /\ pending = NoWrite
    /\ \E code \in {0, 1} : child' = [child EXCEPT !.state = "exited", !.rc = code]
    /\ UNCHANGED <<mode, rpc, result, pending, wrote, pipe, drain, log, toolVars, auxVars>>

\* run_command_async_stream up to its gather (esp_utils.py:39-63): the launch,
\* or the exception of a failed launch converted at line 67
StreamLaunch ==
    /\ mode = "stream" /\ rpc = "start"
    /\ \/ /\ child' = [child EXCEPT !.state = "running", !.launches = @ + 1]
          /\ drain' = [s \in Streams |-> [pc |-> "read", chunks |-> <<>>]]
          /\ rpc' = "gather"
          /\ UNCHANGED result
       \/ /\ rpc' = "returned"
          /\ result' = OnException(<<>>)
          /\ UNCHANGED <<child, drain>>
    /\ UNCHANGED <<mode, pending, wrote, pipe, log, toolVars, auxVars>>

\* _read_stream: line = await stream.readline() gives a line (lines 51-55)
DrainRead(s) ==
    /\ mode = "stream" /\ DrainRuns(s) /\ ~InSync
    /\ pipe[s] # <<>>
    /\ pipe' = [pipe EXCEPT ![s] = Tail(@)]
    /\ drain' = [drain EXCEPT ![s] =
          IF ReadRaises(Head(pipe[s])) THEN [@ EXCEPT !.pc = "raised"]
          ELSE [pc |-> "write", chunks |-> Append(@.chunks, DecodeReplace(Head(pipe[s])))]]
    /\ UNCHANGED <<mode, rpc, result, child, pending, wrote, log, toolVars, auxVars>>

\* _read_stream: the append of the tagged line to the log (lines 56-58), or
\* the OSError of open, write or flush
DrainWrite(s) ==
    /\ mode = "stream" /\ drain[s].pc = "write"
    /\ \/ /\ log' = Append(log, [tag |-> Prefix(s), text |-> TextRead(drain[s].chunks)])
          /\ drain' = [drain EXCEPT ![s].pc = "read"]
       \/ /\ drain' = [drain EXCEPT ![s].pc = "raised"]
          /\ UNCHANGED log
    /\ UNCHANGED <<mode, rpc, result, child, pending, wrote, pipe, toolVars, auxVars>>

\* _read_stream: readline() gives b"" at end-of-input (lines 52-53)
DrainEof(s) ==
    /\ mode = "stream" /\ DrainRuns(s) /\ ~InSync
    /\ pipe[s] = <<>> /\ child.state = "exited"
    /\ drain' = [drain EXCEPT ![s].pc = "done"]
    /\ UNCHANGED <<mode, rpc, result, child, pending, wrote, pipe, log, toolVars, auxVars>>

\* await asyncio.gather(...) ends (lines 60-63): with both drains done, or
\* with the first exception of a drain, which line 67 converts at once while
\* the other drain stays scheduled
StreamGather ==
    /\ mode = "stream" /\ rpc = "gather" /\ ~InSync
    /\ \/ /\ \A s \in Streams : drain[s].pc = "done"
          /\ rpc' = "wait"
          /\ UNCHANGED result
       \/ /\ \E s \in Streams : drain[s].pc = "raised"
          /\ rpc' = "returned"
          /\ result' = OnException(drain["stdout"].chunks)
    /\ UNCHANGED <<mode, child, pending, wrote, pipe, drain, log, toolVars, auxVars>>

\* returncode = await process.wait() and the return (lines 65-66)
StreamWait ==
    /\ mode = "stream" /\ rpc = "wait" /\ ~InSync
    /\ child.state = "exited"
    /\ child' = [child EXCEPT !.reaped = TRUE]
    /\ result' = StreamResult(child.rc, drain["stdout"].chunks, drain["stderr"].chunks)
    /\ rpc' = "returned"
    /\ UNCHANGED <<mode, pending, wrote, pipe, drain, log, toolVars, auxVars>>

\* run_command_async up to communicate() (esp_utils.py:18-24)
PlainLaunch ==
    /\ mode = "plain" /\ rpc = "start"
    /\ \/ /\ child' = [child EXCEPT !.state = "running", !.launches = @ + 1]
          /\ drain' = [s \in Streams |-> [pc |-> "communicate", chunks |-> <<>>]]
          /\ rpc' = "communicate"
          /\ UNCHANGED result
       \/ /\ rpc' = "returned"
          /\ result' = OnException(<<>>)
          /\ UNCHANGED <<child, drain>>
    /\ UNCHANGED <<mode, pending, wrote, pipe, log, toolVars, auxVars>>

\* process.communicate() takes what stream s holds (line 24)
PlainRead(s) ==
    /\ mode = "plain" /\ rpc = "communicate"
    /\ pipe[s] # <<>>
    /\ pipe' = [pipe EXCEPT ![s] = Tail(@)]
    /\ drain' = [drain EXCEPT ![s].chunks = Append(@, Head(pipe[s]))]
    /\ UNCHANGED <<mode, rpc, result, child, pending, wrote, log, toolVars, auxVars>>

\* communicate() ends at end-of-input of both streams with the exit status
\* collected; the two decodes and the return, or the converted
\* UnicodeDecodeError (lines 24-27)
PlainReturn ==
    /\ mode = "plain" /\ rpc = "communicate"
    /\ \A s \in Streams : pipe[s] = <<>>
    /\ child.state = "exited"
    /\ child' = [child EXCEPT !.reaped = TRUE]
    /\ rpc' = "returned"
    /\ result' =
          IF CanDecode(drain["stdout"].chunks) /\ CanDecode(drain["stderr"].chunks)
          THEN [rc |-> child.rc, out |-> Decode(drain["stdout"].chunks),
                err |-> Decode(drain["stderr"].chunks)]
          ELSE OnException(drain["stdout"].chunks)
    /\ UNCHANGED <<mode, pending, wrote, pipe, drain, log, toolVars, auxVars>>

----------------------------------------------------------------------------
(* esp_utils.py: the serial port enumerator *)

\* None as a vendor or product ID (a filter not supplied, an ID the host
\* does not report)
NoneId == -1

\* esp_vid = 0x303A
esp_vid == 12346

\* the devices the host may report, by a short name
PortIds == {"usbmodem", "usbserial", "debug", "SLAB", "slab"}

\* the ListPortInfo of a device: its device path both as the text printed and
\* as the code points that str.lower, the `in` test and the comparison of
\* strings work on, its IDs (0x303A/0x1001, 0x303A/0x0002, 0x10C4/0xEA60 or
\* none) and its description
ListPortInfo(id) ==
    CASE id = "usbmodem" ->
           [device |-> "/dev/cu.usbmodem1",
            path |-> <<47, 100, 101, 118, 47, 99, 117, 46, 117, 115, 98, 109, 111, 100, 101, 109, 49>>,
            vid |-> 12346, pid |-> 4097, description |-> "USB JTAG/serial debug unit"]
      [] id = "usbserial" ->
           [device |-> "/dev/cu.usbserial-1",
            path |-> <<47, 100, 101, 118, 47, 99, 117, 46, 117, 115, 98, 115, 101, 114, 105, 97, 108, 45, 49>>,
            vid |-> 12346, pid |-> 2, description |-> "ESP32-S2"]
      [] id = "debug" ->
           [device |-> "/dev/cu.debug-console",
            path |-> <<47, 100, 101, 118, 47, 99, 117, 46, 100, 101, 98, 117, 103, 45, 99, 111, 110, 115, 111, 108, 101>>,
            vid |-> NoneId, pid |-> NoneId, description |-> ""]
      [] id = "SLAB" ->
           [device |-> "/dev/cu.SLAB_USBtoUART",
            path |-> <<47, 100, 101, 118, 47, 99, 117, 46, 83, 76, 65, 66, 95, 85, 83, 66, 116, 111, 85, 65, 82, 84>>,
            vid |-> 4292, pid |-> 60000, description |-> "CP2102 USB to UART Bridge Controller"]
      [] id = "slab" ->
           [device |-> "/dev/cu.slab_usbtouart",
            path |-> <<47, 100, 101, 118, 47, 99, 117, 46, 115, 108, 97, 98, 95, 117, 115, 98, 116, 111, 117, 97, 114, 116>>,
            vid |-> NoneId, pid |-> NoneId, description |-> ""]

\* the values of the vid and pid arguments: None or a USB ID
VidFilters == {NoneId, esp_vid, 4292}
PidFilters == {NoneId, 4097, 60000}

\* list(list_ports.comports()): up to MaxPorts distinct devices in the order
\* the host enumerates them
PortLists ==
    {ps \in UNION {[1..n -> PortIds] : n \in 0..MaxPorts} :
        \A i, j \in 1..Len(ps) : i # j => ps[i] # ps[j]}

\* what "python -m serial.tools.list_ports" can do: fail to start, print
\* bytes that are not UTF-8, or exit with a return code and two texts
SubOutcomes ==
    {[kind |-> k, rc |-> 0, out |-> <<>>, err |-> ""] :
        k \in {"launch_error", "undecodable"}}
    \cup [kind : {"exited"}, rc : {0, 1},
          out : {<<>>, <<"/dev/ttyUSB0">>},
          err : {"", "No module named serial"}]

NoSub == [kind |-> "none", rc |-> 0, out |-> <<>>, err |-> ""]

\* the arguments of one call and the answers of its host: whether pyserial
\* imports, whether comports() raises, the devices, the fallback's outcome
PortInputs ==
    [vid : VidFilters, pid : PidFilters, import : {TRUE}, enum : {"ok"},
     ports : PortLists, sub : {NoSub}]
    \cup [vid : VidFilters, pid : PidFilters, import : {TRUE}, enum : {"raises"},
          ports : {<<>>}, sub : {NoSub}]
    \cup [vid : VidFilters, pid : PidFilters, import : {FALSE}, enum : {"ok"},
          ports : {<<>>}, sub : SubOutcomes]

NoPortsResult == [kind |-> "none", rc |-> 0, out |-> <<>>, err |-> ""]
PortsReturned(rc, out, err) == [kind |-> "returned", rc |-> rc, out |-> out, err |-> err]

\* str.lower on one code point, and on a path
Lower(c) == IF c \in 65..90 THEN c + 32 ELSE c
LowerPath(p) == [i \in 1..Len(p) |-> Lower(p[i])]

\* pat in hay
Contains(hay, pat) ==
    \E i \in 1..(Len(hay) - Len(pat) + 1) : SubSeq(hay, i, i + Len(pat) - 1) = pat

\* "usbmodem" and "ttyacm"
usbmodem == <<117, 115, 98, 109, 111, 100, 101, 109>>
ttyacm == <<116, 116, 121, 97, 99, 109>>

\* a < b on strings: by code points, a proper prefix first
RECURSIVE StrLess(_, _)
StrLess(a, b) ==
    IF b = <<>> THEN FALSE
    ELSE IF a = <<>> THEN TRUE
    ELSE IF a[1] # b[1] THEN a[1] < b[1]
    ELSE StrLess(Tail(a), Tail(b))

\* _port_rank: the sort key of a device
port_rank(port) ==
    LET dev == LowerPath(port.path)
        is_esp == port.vid = esp_vid
        is_usb_cdc == Contains(dev, usbmodem) \/ Contains(dev, ttyacm)
    IN  <<IF is_esp /\ is_usb_cdc THEN 0 ELSE IF is_esp THEN 1 ELSE 2, dev>>

\* a < b on the keys, which are tuples
KeyLess(a, b) == a[1] < b[1] \/ (a[1] = b[1] /\ StrLess(a[2], b[2]))

\* one step of a stable sort: x goes behind every device whose key is not
\* greater than its own
InsertPort(x, s) ==
    LET k == Cardinality({i \in 1..Len(s) :
                 ~KeyLess(port_rank(ListPortInfo(x)), port_rank(ListPortInfo(s[i])))})
    IN  SubSeq(s, 1, k) \o <<x>> \o SubSeq(s, k + 1, Len(s))

\* ports.sort(key=_port_rank): list.sort is stable
RECURSIVE SortPorts(_)
SortPorts(ps) ==
    IF ps = <<>> THEN <<>>
    ELSE InsertPort(ps[Len(ps)], SortPorts(SubSeq(ps, 1, Len(ps) - 1)))

\* a filter that also lets a device without the ID through
MatchesOrAbsent(have, want) == have = want \/ have = NoneId

\* p.vid == vid, p.pid == pid: None equals no ID
Matches(have, want) == have = want

\* the two list comprehensions, each applied when its filter is supplied
FilterPorts(ps, vid, pid) ==
    LET ByVid(id) == Matches(ListPortInfo(id).vid, vid)
        ByPid(id) == Matches(ListPortInfo(id).pid, pid)
        kept == IF vid # NoneId THEN SelectSeq(ps, ByVid) ELSE ps
    IN  IF pid # NoneId THEN SelectSeq(kept, ByPid) ELSE kept

HexDigits == <<"0", "1", "2", "3", "4", "5", "6", "7",
               "8", "9", "a", "b", "c", "d", "e", "f">>

\* f"0x{n:04x}" for an ID of at most four hex digits
Hex4(n) ==
    "0x" \o HexDigits[((n \div 4096) % 16) + 1] \o HexDigits[((n \div 256) % 16) + 1]
         \o HexDigits[((n \div 16) % 16) + 1] \o HexDigits[(n % 16) + 1]

IdStr(n) == IF n # NoneId THEN Hex4(n) ELSE "unknown"

\* str.rstrip on a line given as its fields: an empty last field and the
\* blank before it go
Rstrip(fields) ==
    IF fields[Len(fields)] = "" THEN SubSeq(fields, 1, Len(fields) - 1) ELSE fields

\* f"{port.device}\tvid={vid_str} pid={pid_str} {desc}".rstrip()
FormatPort(port) ==
    Rstrip(<<port.device, "vid=" \o IdStr(port.vid), "pid=" \o IdStr(port.pid),
             port.description>>)

\* a no-match answer that reports failure
NoMatchFails ==
    PortsReturned(1, <<>>, "No serial ports matched the requested filter.")

\* return 0, "", "No serial ports matched the requested filter."
NoMatchResult ==
    PortsReturned(0, <<>>, "No serial ports matched the requested filter.")

\* the outer except: the static list of common ports and a note
CommonPortsResult ==
    PortsReturned(0,
        <<"Common ESP device ports to try:", "/dev/ttyUSB0", "/dev/ttyUSB1",
          "/dev/ttyACM0", "/dev/ttyACM1", "/dev/cu.usbserial-*",
          "/dev/cu.SLAB_USBtoUART", "COM1", "COM2", "COM3">>,
        "Note: Could not auto-detect ports. Error: ")

\* the structured path once comports() has answered
Enumerated(ps, vid, pid) ==
    LET kept == FilterPorts(ps, vid, pid)
        ports == IF vid = NoneId /\ pid = NoneId THEN SortPorts(kept) ELSE kept
        lines == [i \in 1..Len(ports) |-> FormatPort(ListPortInfo(ports[i]))]
    IN  IF lines = <<>> THEN NoMatchResult ELSE PortsReturned(0, lines, "")

PortIdle ==
    /\ lin = [vid |-> NoneId, pid |-> NoneId, import |-> TRUE, enum |-> "ok",
              ports |-> <<>>, sub |-> NoSub]
    /\ lpc = "idle"
    /\ lout = NoPortsResult

PortInit == lin \in PortInputs /\ lpc = "start" /\ lout = NoPortsResult

\* list_serial_ports up to its return or to the await on the fallback
list_serial_ports ==
    /\ lpc = "start"
    /\ IF ~lin.import
       THEN IF lin.sub.kind = "launch_error"
            THEN lpc' = "done" /\ lout' = CommonPortsResult
            ELSE lpc' = "communicate" /\ lout' = lout
       ELSE /\ lpc' = "done"
            /\ lout' = IF lin.enum = "raises" THEN CommonPortsResult
                       ELSE Enumerated(lin.ports, lin.vid, lin.pid)
    /\ UNCHANGED <<lin, sharedLog, toolVars, runnerVars>>

\* the fallback subprocess has ended: its return code and decoded texts
list_ports_fallback ==
    /\ lpc = "communicate"
    /\ lpc' = "done"
    /\ lout' = IF lin.sub.kind = "undecodable" THEN CommonPortsResult
               ELSE PortsReturned(lin.sub.rc, lin.sub.out, lin.sub.err)
    /\ UNCHANGED <<lin, sharedLog, toolVars, runnerVars>>

----------------------------------------------------------------------------
(* esp_utils.py: two streaming calls on one log file *)

\* the _read_stream tasks of two calls of run_command_async_stream
Calls == {1, 2}
Writers == Calls \X Streams

\* what readline() hands to a task: a line with its newline, or the rest of
\* the stream when the command ended its output without one
Chunks == {"line", "tail"}

\* the pieces of the file that task w has written
PiecesOf(w) == {i \in 1..Len(sharedLog) : sharedLog[i].by = w}

\* the number of appends of task w
AppendsOf(w) == Cardinality({i \in PiecesOf(w) : sharedLog[i].part = "prefix"})

\* readline() of task w returned the rest of its stream: b"" comes next
AtEof(w) ==
    \E i \in PiecesOf(w) :
        /\ sharedLog[i].part = "text"
        /\ \A j \in PiecesOf(w) : j > i => sharedLog[j].part # "nl"
        /\ \A j \in PiecesOf(w) : j <= i

\* the file at log_path before the calls
SharedInit == sharedLog = <<>>

\* handle.write(f"{prefix}{text}"): the prefix, the text and, when the text
\* read has one, its newline
Entry(w, c) ==
    <<[by |-> w, part |-> "prefix"], [by |-> w, part |-> "text"]>>
    \o (IF c = "line" THEN <<[by |-> w, part |-> "nl"]>> ELSE <<>>)

\* one turn of the loop of _read_stream: readline() returns a chunk and the
\* task opens the file for appending, writes and flushes before its next await
SharedAppend(w, c) ==
    /\ AppendsOf(w) < MaxAppends
    /\ ~AtEof(w)
    /\ sharedLog' = sharedLog \o Entry(w, c)
    /\ UNCHANGED <<portVars, toolVars, runnerVars>>

----------------------------------------------------------------------------
(* Spec: the tool operations *)

Init == ToolInit /\ RunnerIdle /\ PortIdle /\ SharedInit

\* the steps of invocation t
StepOf(t) ==
    \/ build_esp_project(t) \/ build_resume(t)
    \/ setup_project_esp_target(t) \/ setup_resume(t)
    \/ create_esp_project(t) \/ create_resume(t)
    \/ flash_esp_project(t) \/ flash_attempt_done(t) \/ flash_sleep_done(t)
    \/ run_esp_idf_install(t) \/ install_resume(t)
    \/ run_pytest(t) \/ pytest_resume(t)

Next == \E t \in Tasks : StepOf(t)

Spec == Init /\ [][Next]_vars

----------------------------------------------------------------------------
(* SpecRunner: one call of a runner, with its child process *)

InitRunner ==
    /\ idfEnv = TRUE /\ envRetries = 1 /\ cwd = StartDir /\ blocked = NoTask
    /\ inv = [t \in Tasks |-> InitInv]
    /\ RunnerInit
    /\ PortIdle /\ SharedInit

ChildStep == ChildNext \/ ChildWrite \/ ChildExit

NextRunner ==
    \/ ChildNext \/ ChildWrite \/ ChildExit
    \/ StreamLaunch \/ StreamGather \/ StreamWait
    \/ \E s \in Streams : DrainRead(s) \/ DrainWrite(s) \/ DrainEof(s)
    \/ PlainLaunch \/ PlainReturn
    \/ \E s \in Streams : PlainRead(s)

SpecRunner == InitRunner /\ [][NextRunner]_vars

\* the loop runs every ready callback and the system schedules the child
FairnessRunner ==
    /\ WF_vars(ChildNext) /\ WF_vars(ChildWrite) /\ WF_vars(ChildExit)
    /\ WF_vars(StreamLaunch) /\ WF_vars(StreamGather) /\ WF_vars(StreamWait)
    /\ \A s \in Streams :
          WF_vars(DrainRead(s)) /\ WF_vars(DrainWrite(s)) /\ WF_vars(DrainEof(s))
    /\ WF_vars(PlainLaunch) /\ WF_vars(PlainReturn)
    /\ \A s \in Streams : WF_vars(PlainRead(s))

FairSpecRunner == SpecRunner /\ FairnessRunner

----------------------------------------------------------------------------
(* SpecPorts: one call of list_serial_ports *)

InitPorts ==
    /\ idfEnv = TRUE /\ envRetries = 1 /\ cwd = StartDir /\ blocked = NoTask
    /\ inv = [t \in Tasks |-> InitInv]
    /\ RunnerIdle
    /\ PortInit /\ SharedInit

NextPorts == list_serial_ports \/ list_ports_fallback

SpecPorts == InitPorts /\ [][NextPorts]_vars

----------------------------------------------------------------------------
(* SpecShared: two streaming calls with the same log_path *)

InitShared ==
    /\ idfEnv = TRUE /\ envRetries = 1 /\ cwd = StartDir /\ blocked = NoTask
    /\ inv = [t \in Tasks |-> InitInv]
    /\ RunnerIdle
    /\ PortIdle /\ SharedInit

NextShared == \E w \in Writers, c \in Chunks : SharedAppend(w, c)

SpecShared == InitShared /\ [][NextShared]_vars

----------------------------------------------------------------------------
(* The flash retry loop (Spec) *)

IsFlash(t) == inv[t].op = "flash" /\ inv[t].retries >= 1
FlashReturned(t) == IsFlash(t) /\ inv[t].pc = "done" /\ inv[t].ret.kind = "returned"

\* C1: with N >= 1 the runner is invoked at most N times and never again after
\* an attempt with exit code 0: when attempt k is the first with exit code 0,
\* exactly k invocations happen and the returned stdout and stderr are those
\* of attempt k.
C1_StopsAtFirstSuccess ==
    \A t \in Tasks : IsFlash(t) =>
        /\ inv[t].calls <= inv[t].retries
        /\ inv[t].firstOk # 0 => inv[t].calls = inv[t].firstOk
        /\ (FlashReturned(t) /\ inv[t].firstOk # 0) =>
               /\ inv[t].last.rc = 0
               /\ inv[t].ret = Returned(inv[t].last.out, inv[t].last.err, FALSE)

\* a flash that succeeded at its second attempt of at least three has returned
C1_Witness ==
    \E t \in Tasks : FlashReturned(t) /\ inv[t].firstOk = 2 /\ inv[t].retries >= 3

\* C2: with N >= 1 and every attempt failing, the runner is invoked exactly N
\* times and the exit code, stdout and stderr that are logged and returned are
\* those of the N-th attempt alone.
C2_ExhaustedReturnsLast ==
    \A t \in Tasks : (FlashReturned(t) /\ inv[t].firstOk = 0) =>
        /\ inv[t].calls = inv[t].retries
        /\ inv[t].last.rc # 0
        /\ inv[t].logged = inv[t].last
        /\ inv[t].ret = Returned(inv[t].last.out, inv[t].last.err, FALSE)

\* a flash whose three attempts all failed has returned
C2_Witness ==
    \E t \in Tasks : FlashReturned(t) /\ inv[t].firstOk = 0 /\ inv[t].calls >= 3

\* C3: the loop delays between two attempts but not after the last one: a
\* delay is under way only when a further attempt follows it.
C3_NoDelayAfterLastAttempt ==
    \A t \in Tasks :
        (IsFlash(t) /\ inv[t].pc = "sleeping") => inv[t].attempt < inv[t].retries

\* C4: while one flash invocation waits out its delay, every other invocation
\* that is ready to start or to take its runner's result can take its step.
C4_DelayIsCooperative ==
    \A t, u \in Tasks :
        (t # u /\ inv[t].pc = "sleeping" /\ inv[u].pc \in {"idle", "running"})
            => ENABLED StepOf(u)

\* C10: an operation that needs the toolchain root and finds no configuration
\* of it (no explicit path, no IDF_PATH) returns an error string naming the
\* missing requirement; no exception leaves the operation.
C10_MissingConfigReturned ==
    \A t \in Tasks :
        (inv[t].pc = "done" /\ inv[t].op \in Ops /\ ConfigMissing(inv[t].idf)) =>
            /\ inv[t].ret.kind = "returned"
            /\ inv[t].ret.err = IdfPathMissing

----------------------------------------------------------------------------
(* The runners (SpecRunner, FairSpecRunner) *)

\* the call returned the converted error / returned on its normal path
ErrorReturn == rpc = "returned" /\ result.err = <<ErrPrefix>>
NormalReturn == rpc = "returned" /\ ~ErrorReturn

\* the text the lines written to stream s decode to, in the order written
Expected(s) == Join([i \in 1..Len(wrote[s]) |-> DecodeReplace(wrote[s][i])])

\* the lines of the log that carry the prefix of stream s
Tagged(s) == SelectSeq(log, LAMBDA e : e.tag = Prefix(s))

C21_LogIsPrefixOfChunks ==
    mode = "stream" =>
        \A s \in Streams :
            /\ Len(Tagged(s)) <= Len(drain[s].chunks)
            /\ Len(drain[s].chunks) - Len(Tagged(s)) <= 1
            /\ \A i \in 1..Len(Tagged(s)) : Tagged(s)[i].text = drain[s].chunks[i]

\* stdout holds two different lines in memory, the second not yet in the
\* log, and a stderr line was logged before the first stdout line
C21_Witness ==
    /\ mode = "stream" /\ rpc = "gather"
    /\ Len(drain["stdout"].chunks) = 2
    /\ drain["stdout"].chunks[1] # drain["stdout"].chunks[2]
    /\ Len(Tagged("stdout")) = 1
    /\ Len(log) = 2 /\ log[1].tag = "[stderr] "

\* C7: run_command_async_stream returns only after both drains reached
\* end-of-input and the child's termination was awaited: no result while a
\* drain is still running or the exit status is not collected.
C7_ReturnsAfterDrainsAndWait ==
    (mode = "stream" /\ rpc = "returned" /\ child.launches > 0) =>
        /\ \A s \in Streams : drain[s].pc = "done"
        /\ child.reaped

\* an error struck the call: the launch failed, a drain raised, or the
\* captured bytes do not decode
Faulted ==
    \/ rpc # "start" /\ child.launches = 0
    \/ mode = "stream" /\ \E s \in Streams : drain[s].pc = "raised"
    \/ mode = "plain" /\ rpc = "returned"
          /\ \E s \in Streams : ~CanDecode(drain[s].chunks)

\* C8: no error leaves a runner: when the launch, a read, a decode or a log
\* write fails, the call returns exit code 1, an empty stdout (also when lines
\* were accumulated or logged before) and a stderr that starts with
\* "Error executing command: ".
C8_ErrorsConverted ==
    Faulted =>
        /\ rpc \in {"gather", "returned"}
        /\ rpc = "returned" => result = [rc |-> 1, out |-> <<>>, err |-> <<ErrPrefix>>]

\* the streaming runner returned after a failure that came when stdout lines
\* were already accumulated and logged
C8_Witness ==
    /\ mode = "stream" /\ rpc = "returned"
    /\ \E s \in Streams : drain[s].pc = "raised"
    /\ drain["stdout"].chunks # <<>> /\ log # <<>>

\* C9: a call launches at most one child, and on every return path the exit
\* status of that child has been collected.
C9_ChildReapedOnReturn ==
    /\ child.launches <= 1
    /\ (rpc = "returned" /\ child.launches = 1) =>
           child.state = "exited" /\ child.reaped

----------------------------------------------------------------------------
(* The tool operations (Spec) *)

\* the directory invocation t selected for its command: its project, or the
\* toolchain directory for run-install
SelectedDir(t) ==
    IF inv[t].op = "install" THEN get_esp_idf_dir(ProcessedIdf(inv[t].idf)).val
    ELSE inv[t].project

\* C11: with the toolchain path configuration missing (no explicit path, no
\* IDF_PATH) no operation launches a child process: the configuration error
\* comes before any call of a runner.
C11_NoLaunchWithoutConfig ==
    \A t \in Tasks :
        (inv[t].op \in Ops /\ ConfigMissing(inv[t].idf)) =>
            /\ inv[t].calls = 0
            /\ inv[t].ranIn = {}
            /\ inv[t].pc = "done"

\* a flash and a build have ended on the missing configuration
C11_Witness ==
    \E t, u \in Tasks :
        /\ inv[t].op = "flash" /\ inv[t].pc = "done" /\ ConfigMissing(inv[t].idf)
        /\ inv[u].op = "build" /\ inv[u].pc = "done" /\ ConfigMissing(inv[u].idf)

\* C12: concurrent invocations share no mutable state besides the log files:
\* every child an invocation launches, the later attempts of a flash
\* included, runs in the directory this invocation selected.
C12_ChildRunsInOwnDirectory ==
    \A t \in Tasks : inv[t].ranIn \subseteq {SelectedDir(t)}

\* the name stem of the logs of an operation
LogStem(o) ==
    CASE o = "build" -> "mcp-process"
      [] o = "set_target" -> "mcp-set-target"
      [] o = "create" -> "mcp-project-root-path"
      [] o = "flash" -> "mcp-flash"
      [] o = "install" -> "mcp-install"
      [] o = "pytest" -> "mcp-pytest"

\* C18: every operation that ran a command has streamed to its fixed-named
\* live log and, when it returns, has written its fixed-named result log and
\* a timestamped snapshot <operation>-<YYYYMMDD-HHMMSS>.log.
C18_LiveResultAndSnapshotLogs ==
    \A t \in Tasks :
        (inv[t].pc = "done" /\ inv[t].ret.kind = "returned" /\ inv[t].calls > 0) =>
            {LogStem(inv[t].op) \o "-live.log", LogStem(inv[t].op) \o ".log",
             LogStem(inv[t].op) \o "-TIMESTAMP.log"} \subseteq inv[t].files

\* the records of invocation t that carry attempt number k and the total
AttemptRecords(t, k) ==
    {i \in DOMAIN inv[t].warnings :
        /\ inv[t].warnings[i].kind = "retry"
        /\ inv[t].warnings[i].attempt = k
        /\ inv[t].warnings[i].total = inv[t].retries}

RetryRecords(t) ==
    {i \in DOMAIN inv[t].warnings : inv[t].warnings[i].kind = "retry"}

\* C20: every attempt of the flash loop, failed or successful, has a log
\* record carrying its number k and the total N, and a record announcing a
\* retry is emitted only when another attempt follows.
C20_EveryAttemptRecorded ==
    \A t \in Tasks : FlashReturned(t) =>
        /\ \A k \in 1..inv[t].calls : AttemptRecords(t, k) # {}
        /\ Cardinality(RetryRecords(t)) = inv[t].calls - 1

----------------------------------------------------------------------------
(* The serial port enumerator (SpecPorts) *)

\* the call took the structured path and comports() answered
StructuredDone == lpc = "done" /\ lin.import /\ lin.enum = "ok"

\* the enumerated devices that pass the supplied filters
Passing ==
    {id \in {lin.ports[i] : i \in 1..Len(lin.ports)} :
        /\ lin.vid # NoneId =>
              ListPortInfo(id).vid # NoneId /\ ListPortInfo(id).vid = lin.vid
        /\ lin.pid # NoneId =>
              ListPortInfo(id).pid # NoneId /\ ListPortInfo(id).pid = lin.pid}

\* C14: on the structured path the output has exactly one line per enumerated
\* device that passes the supplied filters and none for any other device; a
\* device with an absent ID never passes a filter on that ID and is printed
\* as "unknown" when unfiltered; vendor 0x303A is printed as "vid=0x303a".
C14_OneLinePerPassingDevice ==
    StructuredDone =>
        /\ lout.kind = "returned"
        /\ Len(lout.out) = Cardinality(Passing)
        /\ \A id \in Passing : \E i \in 1..Len(lout.out) :
              /\ lout.out[i][1] = ListPortInfo(id).device
              /\ ListPortInfo(id).vid = NoneId => lout.out[i][2] = "vid=unknown"
              /\ ListPortInfo(id).pid = NoneId => lout.out[i][3] = "pid=unknown"
              /\ ListPortInfo(id).vid = esp_vid => lout.out[i][2] = "vid=0x303a"

\* a vendor filter drops a device of another vendor and one without IDs, and
\* keeps two of the vendor
C14_Witness ==
    /\ StructuredDone /\ lin.vid = esp_vid /\ lin.pid = NoneId
    /\ Len(lin.ports) = 3 /\ Len(lout.out) = 2
    /\ \E i \in 1..3 : lin.ports[i] = "debug"

\* the device printed on a line of the output
PrintedPort(line) == CHOOSE id \in PortIds : ListPortInfo(id).device = line[1]

\* C15: with neither filter the output order is fixed by the set of devices:
\* the three groups in order and, within a group, the device paths in lexical
\* order, whatever the order of enumeration.
C15_OrderIsByGroupThenPath ==
    (StructuredDone /\ lin.vid = NoneId /\ lin.pid = NoneId) =>
        \A i, j \in 1..Len(lout.out) : i < j =>
            LET a == ListPortInfo(PrintedPort(lout.out[i]))
                b == ListPortInfo(PrintedPort(lout.out[j]))
            IN  \/ port_rank(a)[1] < port_rank(b)[1]
                \/ port_rank(a)[1] = port_rank(b)[1] /\ StrLess(a.path, b.path)

\* C16: when comports() raises or no device remains after filtering, the
\* call returns exit code 0 with a message or the static list of common
\* paths; it neither raises nor returns another exit code.
C16_NoMatchAndErrorAreZero ==
    (lpc = "done" /\ lin.import /\ (lin.enum = "raises" \/ Passing = {})) =>
        /\ lout.kind = "returned"
        /\ lout.rc = 0
        /\ Len(lout.out) > 0 \/ lout.err # ""

\* devices were enumerated and the filters left none of them
C16_Witness ==
    /\ StructuredDone /\ Len(lin.ports) = 2 /\ Passing = {}
    /\ lout.err = "No serial ports matched the requested filter."

\* C17: on every path, the subprocess fallback included, the call returns
\* exit code 0 without raising and stdout or stderr is non-empty.
C17_EveryPathNonFatal ==
    lpc = "done" =>
        /\ lout.kind = "returned"
        /\ lout.rc = 0
        /\ Len(lout.out) > 0 \/ lout.err # ""

\* invocation t is a flash whose configured attempt count is zero or negative
\* and whose toolchain path resolved, and it has ended
FlashNoAttempts(t) ==
    /\ inv[t].op = "flash" /\ inv[t].retries <= 0
    /\ inv[t].pc = "done" /\ ~ConfigMissing(inv[t].idf)

\* C22: with a maximum attempt count of zero or less the retry loop launches
\* no process and performs no delay, and the operation returns an empty
\* stdout and an empty stderr while the result it logs has return code 1.
C22_NoAttemptsReturnsEmpty ==
    \A t \in Tasks : FlashNoAttempts(t) =>
        /\ inv[t].calls = 0 /\ inv[t].ranIn = {}
        /\ inv[t].delays = 0
        /\ inv[t].ret = Returned("", "", FALSE)
        /\ inv[t].logged = [rc |-> 1, out |-> "", err |-> ""]
        /\ "mcp-flash-live.log" \notin inv[t].files

\* a flash configured with a negative count has returned beside a build
\* that ran its command
C22_Witness ==
    \E t, u \in Tasks :
        /\ FlashNoAttempts(t) /\ inv[t].retries < 0 /\ inv[t].ret.kind = "returned"
        /\ inv[u].op = "build" /\ inv[u].calls = 1

----------------------------------------------------------------------------
(* The shared log file (SpecShared) *)

\* C13: when two streaming calls append to the same log path, every line of
\* the file is one whole tagged line, the prefix and the text of one line
\* read, written by a single append of one call: each prefix starts a line,
\* and each text and each newline follows the piece before it of the same
\* append, whatever the interleaving.
C13_LogLinesAreWhole ==
    (\A k \in Calls : \E s \in Streams : AppendsOf(<<k, s>>) > 0) =>
        \A i \in 1..Len(sharedLog) :
            /\ sharedLog[i].part = "prefix" => i = 1 \/ sharedLog[i - 1].part = "nl"
            /\ sharedLog[i].part = "text" =>
                  /\ i > 1 /\ sharedLog[i - 1].part = "prefix"
                  /\ sharedLog[i - 1].by = sharedLog[i].by
            /\ sharedLog[i].part = "nl" =>
                  /\ i > 1 /\ sharedLog[i - 1].part = "text"
                  /\ sharedLog[i - 1].by = sharedLog[i].by

----------------------------------------------------------------------------
(* The two runners compared (SpecRunner) *)

\* exactly what the command wrote to stream s, as text
Written(s) == Join([i \in 1..Len(wrote[s]) |-> <<wrote[s][i]>>])

\* C19: for a command that exits with code 0 either runner returns exit code
\* 0, a stdout equal to exactly what the command wrote, whatever the length of
\* its lines and the bytes in them, and an empty stderr when nothing was
\* written to stderr; so the two runners return the same result.
C19_RunnersReturnWhatWasWritten ==
    (rpc = "returned" /\ child.state = "exited" /\ child.rc = 0) =>
        /\ result.rc = 0
        /\ result.out = Written("stdout")
        /\ wrote["stderr"] = <<>> => result.err = <<>>

====
